---- MODULE Spec2Model ----
(***************************************************************************)
(* Model of the Mytime duration type of src/lib.rs: three usize fields,    *)
(* total_seconds, normalize, equality by total seconds and the arithmetic  *)
(* operators +, +=, -, -=, * n, *= n, / n, /= n.                           *)
(*                                                                         *)
(* usize arithmetic keeps its width.  An overflowing + or * panics when    *)
(* the crate is built with overflow checks (the dev/test profile) and      *)
(* wraps modulo 2^UsizeBits otherwise (the release profile); the profile   *)
(* is chosen once, in Init, and both are explored.  A panic ends the run:  *)
(* no operation follows it.                                                *)
(***************************************************************************)
EXTENDS Integers, Sequences, FiniteSets, TLC

\* Width of usize.  It is fixed by the compilation target (16, 32 or 64
\* bits); the model takes the narrowest one so that TLC can enumerate
\* overflowing values.
UsizeBits == 16

\* Number of operator calls explored after construction.
MaxSteps == 2

\* Largest scalar handed to * n, *= n, / n, /= n.
MaxN == 4

Modulus == 2 ^ UsizeBits
UsizeMax == Modulus - 1

VARIABLES
    overflow_checks, \* TRUE: overflow panics (dev/test), FALSE: it wraps (release)
    a,               \* the value the in-place operators mutate
    b,               \* the second operand; pure operators' results are bound to it
    out,             \* the last call: operator, operands before it, outcome
    prev,            \* the call before the last one
    steps            \* number of calls made

vars == <<overflow_checks, a, b, out, prev, steps>>

Mytime(h, m, s) == [hour |-> h, minute |-> m, second |-> s]

AbsDiff(x, y) == IF x >= y THEN x - y ELSE y - x

\* Outcome of a wrapping/checked usize computation whose exact value is x:
\* Overflows(x) says the computation panics, Wrap(x) is what is stored.
Overflows(x) == overflow_checks /\ x > UsizeMax
Wrap(x) == x % Modulus

\* total_seconds: <<n>> when it returns n, <<>> when it panics.
\* Evaluation order: hour * 3600, minute * 60, their sum, plus second.
total_seconds(t) ==
    LET x1 == t.hour * 3600
        x2 == t.minute * 60
        x3 == Wrap(x1) + Wrap(x2)
        x4 == Wrap(x3) + t.second
    IN  IF Overflows(x1) \/ Overflows(x2) \/ Overflows(x3) \/ Overflows(x4)
        THEN <<>>
        ELSE <<Wrap(x4)>>

\* normalize with the two carries in the other order (minute-to-hour first).
normalize_minute_first(t) ==
    LET h1 == t.hour + (t.minute \div 60)
        m1 == t.minute % 60
        m2 == m1 + (t.second \div 60)
        s1 == t.second % 60
    IN  IF Overflows(h1)
        THEN [ok |-> FALSE, v |-> t]
        ELSE [ok |-> TRUE, v |-> Mytime(Wrap(h1), m2, s1)]

\* normalize with the second-to-minute carry dropped.
normalize_no_carry(t) ==
    LET h1 == t.hour + (t.minute \div 60)
    IN  IF Overflows(h1)
        THEN [ok |-> FALSE, v |-> t]
        ELSE [ok |-> TRUE, v |-> Mytime(Wrap(h1), t.minute % 60, t.second % 60)]

\* normalize that forgets to reduce minute after the carry into hour.
normalize_keeps_minute(t) ==
    LET m1 == t.minute + (t.second \div 60)
        s1 == t.second % 60
        h1 == t.hour + (Wrap(m1) \div 60)
    IN  IF Overflows(m1)
        THEN [ok |-> FALSE, v |-> t]
        ELSE IF Overflows(h1)
        THEN [ok |-> FALSE, v |-> Mytime(t.hour, Wrap(m1), s1)]
        ELSE [ok |-> TRUE, v |-> Mytime(Wrap(h1), Wrap(m1), s1)]

\* normalize, in place: ok says it returned, v is self when it returned or
\* at the panic.
normalize(t) ==
    LET m1 == t.minute + (t.second \div 60)
        s1 == t.second % 60
        h1 == t.hour + (Wrap(m1) \div 60)
        m2 == Wrap(m1) % 60
    IN  IF Overflows(m1)
        THEN [ok |-> FALSE, v |-> t]
        ELSE IF Overflows(h1)
        THEN [ok |-> FALSE, v |-> Mytime(t.hour, Wrap(m1), s1)]
        ELSE [ok |-> TRUE, v |-> Mytime(Wrap(h1), m2, s1)]

\* The value a pure operator builds from a second count and returns
\* normalized: <<output>>, or <<>> when normalize panics.
FromSeconds(n) ==
    LET r == normalize(Mytime(0, 0, n))
    IN  IF r.ok THEN <<r.v>> ELSE <<>>

\* eq compared field by field.
eq_fields(x, y) == <<x = y>>

\* PartialEq::eq: <<bool>>, or <<>> when a total_seconds panics.
eq(x, y) ==
    LET s == total_seconds(x)
        o == total_seconds(y)
    IN  IF s = <<>> \/ o = <<>> THEN <<>> ELSE <<s[1] = o[1]>>

\* Add::add: self.total_seconds() + other.total_seconds() in the second
\* field, normalized.  <<output>>, or <<>> on a panic.
add(x, y) ==
    LET s == total_seconds(x)
        o == total_seconds(y)
    IN  IF s = <<>> \/ o = <<>> \/ Overflows(s[1] + o[1])
        THEN <<>>
        ELSE FromSeconds(Wrap(s[1] + o[1]))

\* add_assign that adds only other.second.
add_assign_second_only(t, y) ==
    IF Overflows(t.second + y.second)
    THEN [ok |-> FALSE, v |-> t]
    ELSE normalize(Mytime(t.hour, t.minute, Wrap(t.second + y.second)))

\* AddAssign::add_assign: self.second += other.total_seconds(), normalize.
add_assign(t, y) ==
    LET o == total_seconds(y)
    IN  IF o = <<>> \/ Overflows(t.second + o[1])
        THEN [ok |-> FALSE, v |-> t]
        ELSE normalize(Mytime(t.hour, t.minute, Wrap(t.second + o[1])))

\* sub without the s >= o branch: always s - o.
sub_unguarded(x, y) ==
    LET s == total_seconds(x)
        o == total_seconds(y)
    IN  IF s = <<>> \/ o = <<>>
        THEN <<>>
        ELSE IF s[1] >= o[1]
        THEN FromSeconds(s[1] - o[1])
        ELSE IF overflow_checks THEN <<>> ELSE FromSeconds(Wrap(s[1] - o[1]))

\* Sub::sub: the larger total minus the smaller, normalized.
sub(x, y) ==
    LET s == total_seconds(x)
        o == total_seconds(y)
    IN  IF s = <<>> \/ o = <<>>
        THEN <<>>
        ELSE IF s[1] >= o[1]
        THEN FromSeconds(s[1] - o[1])
        ELSE FromSeconds(o[1] - s[1])

\* sub_assign that stores the difference in second but keeps hour and minute.
sub_assign_keeps_fields(t, y) ==
    LET s == total_seconds(t)
        o == total_seconds(y)
    IN  IF s = <<>> \/ o = <<>>
        THEN [ok |-> FALSE, v |-> t]
        ELSE normalize(Mytime(t.hour, t.minute, AbsDiff(s[1], o[1])))

\* SubAssign::sub_assign: the same difference stored in self, normalized.
sub_assign(t, y) ==
    LET s == total_seconds(t)
        o == total_seconds(y)
    IN  IF s = <<>> \/ o = <<>>
        THEN [ok |-> FALSE, v |-> t]
        ELSE IF s[1] >= o[1]
        THEN normalize(Mytime(0, 0, s[1] - o[1]))
        ELSE normalize(Mytime(0, 0, o[1] - s[1]))

\* Mul<usize>::mul: self.total_seconds() * int, normalized.
mul(x, int) ==
    LET s == total_seconds(x)
    IN  IF s = <<>> \/ Overflows(s[1] * int)
        THEN <<>>
        ELSE FromSeconds(Wrap(s[1] * int))

\* mul_assign that scales only the second field.
mul_assign_second_only(t, other) ==
    IF Overflows(t.second * other)
    THEN [ok |-> FALSE, v |-> t]
    ELSE normalize(Mytime(t.hour, t.minute, Wrap(t.second * other)))

\* MulAssign<usize>::mul_assign: each field times other, in the order hour,
\* minute, second, then normalize.
mul_assign(t, other) ==
    LET h == t.hour * other
        m == t.minute * other
        s == t.second * other
    IN  IF Overflows(h)
        THEN [ok |-> FALSE, v |-> t]
        ELSE IF Overflows(m)
        THEN [ok |-> FALSE, v |-> Mytime(Wrap(h), t.minute, t.second)]
        ELSE IF Overflows(s)
        THEN [ok |-> FALSE, v |-> Mytime(Wrap(h), Wrap(m), t.second)]
        ELSE normalize(Mytime(Wrap(h), Wrap(m), Wrap(s)))

\* div that rounds the quotient up.
div_ceil(x, other) ==
    LET s == total_seconds(x)
    IN  IF other = 0 \/ s = <<>>
        THEN <<>>
        ELSE FromSeconds((s[1] + other - 1) \div other)

\* div that answers a zero divisor with the zero duration.
div_zero_as_zero(x, other) ==
    LET s == total_seconds(x)
    IN  IF other = 0
        THEN <<Mytime(0, 0, 0)>>
        ELSE IF s = <<>> THEN <<>> ELSE FromSeconds(s[1] \div other)

\* Div<usize>::div: panics on other == 0, else self.total_seconds() / other,
\* normalized.
div(x, other) ==
    LET s == total_seconds(x)
    IN  IF other = 0 \/ s = <<>>
        THEN <<>>
        ELSE FromSeconds(s[1] \div other)

\* DivAssign<usize>::div_assign: the same, stored in self.
div_assign(t, other) ==
    LET s == total_seconds(t)
    IN  IF other = 0 \/ s = <<>>
        THEN [ok |-> FALSE, v |-> t]
        ELSE normalize(Mytime(0, 0, s[1] \div other))

-----------------------------------------------------------------------------
\* Values a caller constructs.  Construction validates nothing, so unnormalized
\* values are among them: the two test fixtures, the operands the tests build,
\* a second carry that pushes minute to 60, and values near the top of usize.
Samples ==
    { Mytime(1, 23, 45), Mytime(0, 0, 0), Mytime(0, 0, 5025), Mytime(4, 0, 0),
      Mytime(0, 20, 0), Mytime(0, 59, 60), Mytime(10, 0, 0),
      Mytime(0, UsizeMax, 60), Mytime(UsizeMax, 59, 59) }

Scalars == 0 .. MaxN

NoValue == Mytime(0, 0, 0)

Call(op, self, other, n, ok, ret) ==
    [op |-> op, self |-> self, other |-> other, n |-> n, ok |-> ok, ret |-> ret]

Init ==
    /\ overflow_checks \in BOOLEAN
    /\ a \in Samples
    /\ b \in Samples
    /\ out = Call("new", NoValue, NoValue, 0, TRUE, <<>>)
    /\ prev = out
    /\ steps = 0

\* A call can be made: nothing has panicked and the exploration bound is not hit.
Running == out.ok /\ steps < MaxSteps

\* A query (total_seconds, ==): nothing is mutated or bound.
Query(op, ret) ==
    /\ Running
    /\ out' = Call(op, a, b, 0, ret # <<>>, ret)
    /\ prev' = out
    /\ steps' = steps + 1
    /\ UNCHANGED <<overflow_checks, a, b>>

\* let b = a.clone() <op> ...: the returned value is bound to b.
Pure(op, n, ret) ==
    /\ Running
    /\ out' = Call(op, a, b, n, ret # <<>>, ret)
    /\ b' = IF ret # <<>> THEN ret[1] ELSE b
    /\ prev' = out
    /\ steps' = steps + 1
    /\ UNCHANGED <<overflow_checks, a>>

\* a <op>= ...: a is mutated in place; on a panic it keeps what had been
\* stored by then.
InPlace(op, n, r) ==
    /\ Running
    /\ out' = Call(op, a, b, n, r.ok, IF r.ok THEN <<r.v>> ELSE <<>>)
    /\ a' = r.v
    /\ prev' = out
    /\ steps' = steps + 1
    /\ UNCHANGED <<overflow_checks, b>>

TotalSeconds == Query("total_seconds", total_seconds(a))
Eq == Query("eq", eq(a, b))
Normalize == InPlace("normalize", 0, normalize(a))
Add == Pure("add", 0, add(a, b))
AddAssign == InPlace("add_assign", 0, add_assign(a, b))
Sub == Pure("sub", 0, sub(a, b))
SubAssign == InPlace("sub_assign", 0, sub_assign(a, b))
Mul == \E n \in Scalars : Pure("mul", n, mul(a, n))
MulAssign == \E n \in Scalars : InPlace("mul_assign", n, mul_assign(a, n))
Div == \E n \in Scalars : Pure("div", n, div(a, n))
DivAssign == \E n \in Scalars : InPlace("div_assign", n, div_assign(a, n))

Next ==
    \/ TotalSeconds
    \/ Eq
    \/ Normalize
    \/ Add
    \/ AddAssign
    \/ Sub
    \/ SubAssign
    \/ Mul
    \/ MulAssign
    \/ Div
    \/ DivAssign

Spec == Init /\ [][Next]_vars

-----------------------------------------------------------------------------
IsMytime(t) ==
    /\ t.hour \in 0 .. UsizeMax
    /\ t.minute \in 0 .. UsizeMax
    /\ t.second \in 0 .. UsizeMax

TypeOK ==
    /\ overflow_checks \in BOOLEAN
    /\ IsMytime(a)
    /\ IsMytime(b)
    /\ steps \in 0 .. MaxSteps
    /\ out.ok \in BOOLEAN
    /\ out.ok = FALSE => out.ret = <<>>

-----------------------------------------------------------------------------
\* Exact (unbounded) total of a value, and whether an exact value fits usize.
ExactTotal(t) == t.hour * 3600 + t.minute * 60 + t.second
Fits(x) == x <= UsizeMax
Normalized(t) == t.minute \in 0 .. 59 /\ t.second \in 0 .. 59

\* What an in-place operator leaves to its caller: <<self>>, or <<>> on a panic.
Outcome(r) == IF r.ok THEN <<r.v>> ELSE <<>>

DivByZero == out.op \in {"div", "div_assign"} /\ out.n = 0

\* C1: normalize() preserves the total: once it has returned, total_seconds()
\* gives what it gave before the call, and that is hour*3600 + minute*60 +
\* second of the fields before the call whenever this fits usize.
C1_NormalizePreservesTotal ==
    (out.op = "normalize" /\ out.ok) =>
        /\ total_seconds(a) = total_seconds(out.self)
        /\ Fits(ExactTotal(out.self)) => total_seconds(a) = <<ExactTotal(out.self)>>

C1_Witness ==
    /\ out.op = "normalize" /\ out.ok
    /\ out.self = Mytime(0, 0, 5025)
    /\ a = Mytime(1, 23, 45)

\* C2: scalar division by 0, pure or in place, panics: nothing is returned
\* and no value is stored.
C2_DivByZeroFatal ==
    DivByZero =>
        /\ ~out.ok
        /\ out.ret = <<>>
        /\ a = out.self
        /\ b = out.other
        /\ div(out.self, 0) = <<>>
        /\ div_assign(out.self, 0) = [ok |-> FALSE, v |-> out.self]

C2_Witness == out.op = "div_assign" /\ out.n = 0 /\ ~out.ok /\ a = Mytime(1, 23, 45)

\* C3 as stated: every call other than a scalar division by zero returns.
C3_AllOtherOperationsTotal == ~DivByZero => out.ok

\* Exact values of the operands and of the result of the last call.
ExactOperandsFit ==
    /\ Fits(ExactTotal(out.self))
    /\ out.op \in {"eq", "add", "add_assign", "sub", "sub_assign"}
          => Fits(ExactTotal(out.other))

ExactResultFits ==
    CASE out.op \in {"add", "add_assign"} ->
             Fits(ExactTotal(out.self) + ExactTotal(out.other))
      [] out.op \in {"mul", "mul_assign"} ->
             Fits(ExactTotal(out.self) * out.n)
      [] OTHER -> TRUE

\* C3, amended: a call other than a scalar division by zero returns whenever
\* the exact totals of its operands and of its result fit usize, and always
\* returns when overflow wraps instead of panicking.
C3_TotalWhenExactFits ==
    (out.op # "new" /\ ~DivByZero) =>
        /\ (ExactOperandsFit /\ ExactResultFits) => out.ok
        /\ ~overflow_checks => out.ok

C3_Witness ==
    /\ out.op = "sub" /\ out.ok
    /\ out.self = Mytime(1, 23, 45) /\ out.other = Mytime(4, 0, 0)
    /\ overflow_checks

\* C4 as stated: a *= n leaves in a what a * n returns, for all a and n.
C4_MulAssignSameAsMul ==
    out.op = "mul_assign" =>
        /\ out.ret = mul(out.self, out.n)
        /\ out.ok
        /\ total_seconds(a) = <<ExactTotal(out.self) * out.n>>

\* C4, amended: when a's total and a's total times n fit usize, a *= n
\* leaves in a the fields a * n returns, with total a.total_seconds() * n.
C4_MulAssignSameAsMulWhenFits ==
    (out.op = "mul_assign" /\ Fits(ExactTotal(out.self))
                           /\ Fits(ExactTotal(out.self) * out.n)) =>
        /\ out.ok
        /\ <<a>> = mul(out.self, out.n)
        /\ total_seconds(a) = <<ExactTotal(out.self) * out.n>>

C4_Witness ==
    /\ out.op = "mul_assign" /\ out.n = 2
    /\ out.self = Mytime(1, 23, 45)
    /\ a = Mytime(2, 47, 30)

\* C5 as stated: a += b leaves in a what a + b returns, for all a and b.
C5_AddAssignSameAsAdd ==
    out.op = "add_assign" =>
        /\ out.ret = add(out.self, out.other)
        /\ out.ok
        /\ total_seconds(a) = <<ExactTotal(out.self) + ExactTotal(out.other)>>

\* C5, amended: when the sum of the two totals fits usize, a += b leaves in
\* a the fields a + b returns, with total a.total_seconds() +
\* b.total_seconds().
C5_AddAssignSameAsAddWhenFits ==
    (out.op = "add_assign"
        /\ Fits(ExactTotal(out.self) + ExactTotal(out.other))) =>
        /\ out.ok
        /\ <<a>> = add(out.self, out.other)
        /\ total_seconds(a) = <<ExactTotal(out.self) + ExactTotal(out.other)>>

C5_Witness ==
    /\ out.op = "add_assign"
    /\ out.self = Mytime(0, 59, 60) /\ out.other = Mytime(1, 23, 45)
    /\ a = Mytime(2, 23, 45)

\* C6: a - b, b - a and a -= b give the same fields, whose total is the
\* absolute difference of the two totals; the smaller is never subtracted
\* from: whenever both totals are computed, the subtraction returns.
C6_SubAbsoluteDifference ==
    out.op \in {"sub", "sub_assign"} =>
        /\ out.ret = sub(out.self, out.other)
        /\ out.ret = sub(out.other, out.self)
        /\ out.ret = Outcome(sub_assign(out.self, out.other))
        /\ (total_seconds(out.self) # <<>> /\ total_seconds(out.other) # <<>>) =>
              /\ out.ok
              /\ total_seconds(out.ret[1]) =
                    <<AbsDiff(total_seconds(out.self)[1], total_seconds(out.other)[1])>>

C6_Witness ==
    /\ out.op = "sub"
    /\ out.self = Mytime(1, 23, 45) /\ out.other = Mytime(4, 0, 0)
    /\ out.ret = <<Mytime(2, 36, 15)>>

\* C7: for n > 0, a / n and a /= n give the normalized value whose total is
\* floor(a.total_seconds() / n); two in-place divisions in a row truncate
\* at each step.
C7_DivFloor ==
    /\ (out.op \in {"div", "div_assign"} /\ out.n > 0) =>
          /\ out.ret = div(out.self, out.n)
          /\ out.ret = Outcome(div_assign(out.self, out.n))
          /\ total_seconds(out.self) # <<>> =>
                /\ out.ok
                /\ Normalized(out.ret[1])
                /\ total_seconds(out.ret[1]) = <<total_seconds(out.self)[1] \div out.n>>
    /\ (out.op = "div_assign" /\ prev.op = "div_assign" /\ out.ok
           /\ total_seconds(prev.self) # <<>>) =>
          total_seconds(a) = <<(total_seconds(prev.self)[1] \div prev.n) \div out.n>>

C7_Witness ==
    /\ out.op = "div_assign" /\ prev.op = "div_assign"
    /\ prev.self = Mytime(1, 23, 45) /\ prev.n = 4 /\ out.n = 2
    /\ out.self = Mytime(0, 20, 56)
    /\ a = Mytime(0, 10, 28)

\* C8: normalize() is idempotent: a second call changes no field.
C8_NormalizeIdempotent ==
    (out.op = "normalize" /\ out.ok) => normalize(a) = [ok |-> TRUE, v |-> a]

C8_Witness ==
    /\ out.op = "normalize" /\ out.ok
    /\ out.self = Mytime(0, 59, 60)
    /\ a = Mytime(1, 0, 0)

\* C9: == compares totals, not fields: it answers whether the two totals are
\* equal, so a value equals its normalized form and values with different
\* totals are unequal.
C9_EqIsTotalSecondsEquality ==
    /\ out.op = "eq" =>
          /\ out.ok = (total_seconds(out.self) # <<>> /\ total_seconds(out.other) # <<>>)
          /\ (Fits(ExactTotal(out.self)) /\ Fits(ExactTotal(out.other))) =>
                out.ret = <<ExactTotal(out.self) = ExactTotal(out.other)>>
    /\ (out.op = "normalize" /\ out.ok /\ total_seconds(out.self) # <<>>) =>
          eq(out.self, a) = <<TRUE>>

C9_Witness ==
    /\ out.op = "eq"
    /\ out.self = Mytime(0, 0, 5025) /\ out.other = Mytime(1, 23, 45)
    /\ out.ret = <<TRUE>>

ArithmeticOps ==
    {"add", "add_assign", "sub", "sub_assign", "mul", "mul_assign", "div", "div_assign"}

\* C10: whatever an arithmetic operator returns or leaves in a is normalized
\* (minute and second below 60), after any sequence of calls and whatever
\* the operands looked like.
C10_ResultsNormalized ==
    (out.op \in ArithmeticOps /\ out.ok) =>
        /\ Normalized(out.ret[1])
        /\ out.op \in {"add_assign", "sub_assign", "mul_assign", "div_assign"}
              => a = out.ret[1]
        /\ out.op \in {"add", "sub", "mul", "div"} => b = out.ret[1]

C10_Witness ==
    /\ out.op = "add_assign" /\ prev.op \in ArithmeticOps
    /\ out.self = Mytime(0, 59, 60) /\ out.other = Mytime(0, 0, 0)
    /\ a = Mytime(1, 0, 0)

====
